---- MODULE Spec2Model ----
\* A state-machine model of the rural business simulator: the JSON store
\* (utils/database.py), the scenario page (pages/2_Game_Scenarios.py), the
\* business setup page (pages/1_Business_Setup.py), the auction market page
\* (pages/3_Auction_Market.py) and the scenario provider (utils/ai_manager.py).
\*
\* Execution model.  Every page is a script that runs from top to bottom once
\* per user interaction; one run (with the widget event that caused it) is one
\* action.  Sessions interleave between runs, never inside one.  Identifiers
\* are built from the wall clock truncated to seconds, so the clock `now` is
\* part of the state and two creations in the same second share an identifier.
\* Display-only fields of the records (names, descriptions, locations,
\* created_at/updated_at stamps) are left out.
EXTENDS Integers, Sequences, FiniteSets, TLC


\* ---------------------------------------------------------------------------
\* IEEE-754 binary64 arithmetic, as CPython's float uses it.  A natural number
\* of more than 31 bits is a little-endian sequence of limbs in base 2^12; a
\* non-negative double is [m |-> limbs, e |-> exponent], value m * 2^e.
\* ---------------------------------------------------------------------------
LimbBits == 12
LimbBase == 4096
MantBits == 53

RECURSIVE Pow2(_)
Pow2(n) == IF n = 0 THEN 1 ELSE 2 * Pow2(n - 1)

RECURSIVE BigNorm(_)
BigNorm(x) ==
    IF x = <<>> THEN <<>>
    ELSE IF x[Len(x)] = 0 THEN BigNorm(SubSeq(x, 1, Len(x) - 1)) ELSE x

RECURSIVE BigFromInt(_)
BigFromInt(n) ==
    IF n = 0 THEN <<>> ELSE <<n % LimbBase>> \o BigFromInt(n \div LimbBase)

RECURSIVE BigToInt(_)
BigToInt(x) ==
    IF x = <<>> THEN 0 ELSE x[1] + LimbBase * BigToInt(Tail(x))

RECURSIVE BigMulCarry(_, _, _)
BigMulCarry(x, k, carry) ==
    IF x = <<>> THEN BigFromInt(carry)
    ELSE LET t == x[1] * k + carry
         IN  <<t % LimbBase>> \o BigMulCarry(Tail(x), k, t \div LimbBase)

BigMulSmall(x, k) == BigNorm(BigMulCarry(x, k, 0))

RECURSIVE BigAddCarry(_, _, _)
BigAddCarry(x, y, carry) ==
    IF x = <<>> /\ y = <<>> THEN BigFromInt(carry)
    ELSE LET a == IF x = <<>> THEN 0 ELSE x[1]
             b == IF y = <<>> THEN 0 ELSE y[1]
             t == a + b + carry
         IN  <<t % LimbBase>> \o
             BigAddCarry(IF x = <<>> THEN <<>> ELSE Tail(x),
                         IF y = <<>> THEN <<>> ELSE Tail(y), t \div LimbBase)

BigAdd(x, y) == BigNorm(BigAddCarry(x, y, 0))

RECURSIVE IntBitLen(_)
IntBitLen(n) == IF n = 0 THEN 0 ELSE 1 + IntBitLen(n \div 2)

BigBitLen(x) ==
    IF x = <<>> THEN 0 ELSE LimbBits * (Len(x) - 1) + IntBitLen(x[Len(x)])

BigBit(x, i) ==
    LET j == (i \div LimbBits) + 1
    IN  IF j > Len(x) THEN 0 ELSE (x[j] \div Pow2(i % LimbBits)) % 2

BigShiftLeft(x, n) ==
    IF x = <<>> THEN <<>>
    ELSE [i \in 1..(n \div LimbBits) |-> 0] \o BigMulSmall(x, Pow2(n % LimbBits))

\* floor(x / 2^n)
BigShiftRight(x, n) ==
    LET q == n \div LimbBits
        r == n % LimbBits
        y == IF q >= Len(x) THEN <<>> ELSE SubSeq(x, q + 1, Len(x))
    IN  BigNorm([i \in 1..Len(y) |->
                   (y[i] \div Pow2(r)) +
                   (IF i < Len(y) THEN (y[i + 1] % Pow2(r)) * Pow2(LimbBits - r) ELSE 0)])

\* round-half-to-even of the exact value m * 2^e to a 53-bit mantissa
FRound(m, e) ==
    LET n == BigBitLen(m)
    IN  IF n = 0 THEN [m |-> <<>>, e |-> 0]
        ELSE IF n <= MantBits
             THEN [m |-> BigShiftLeft(m, MantBits - n), e |-> e - (MantBits - n)]
        ELSE LET k     == n - MantBits
                 q     == BigShiftRight(m, k)
                 half  == BigBit(m, k - 1) = 1
                 low   == \E j \in 0..(k - 2) : BigBit(m, j) = 1
                 up    == half /\ (low \/ BigBit(q, 0) = 1)
                 q1    == IF up THEN BigAdd(q, <<1>>) ELSE q
             IN  IF BigBitLen(q1) > MantBits
                 THEN [m |-> BigShiftRight(q1, 1), e |-> e + k + 1]
                 ELSE [m |-> q1, e |-> e + k]

\* float * float restricted to an integer-valued left operand below 2^18
FMulInt(n, x) == FRound(BigMulSmall(x.m, n), x.e)

FAdd(x, y) ==
    IF x.m = <<>> THEN y
    ELSE IF y.m = <<>> THEN x
    ELSE LET e == IF x.e < y.e THEN x.e ELSE y.e
         IN  FRound(BigAdd(BigShiftLeft(x.m, x.e - e), BigShiftLeft(y.m, y.e - e)), e)

\* int(x) for a non-negative float: truncation toward zero
FTrunc(x) ==
    IF x.m = <<>> THEN 0
    ELSE IF x.e >= 0 THEN BigToInt(BigShiftLeft(x.m, x.e))
    ELSE BigToInt(BigShiftRight(x.m, 0 - x.e))

\* ---------------------------------------------------------------------------
\* Configuration (config.py) and the float constants the code multiplies by.
\* ---------------------------------------------------------------------------
F0_3 == [m |-> <<819, 819, 819, 819, 19>>, e |-> -54]
F0_4 == [m |-> <<2458, 2457, 2457, 2457, 25>>, e |-> -54]
F0_7 == [m |-> <<1638, 1638, 1638, 1638, 22>>, e |-> -53]

SCORING_WEIGHTS == [risk |-> F0_3, reward |-> F0_4, realism |-> F0_3]
SCORE_THRESHOLDS == [excellent |-> 80, good |-> 60, average |-> 40, poor |-> 20]
max_rounds == 10
min_bid_increment == 100
auction_duration == 60
starting_price_factor == F0_7
LeaderboardCap == 100
MaxMetric == 10

BUSINESS_TYPES ==
    << [name |-> "Dairy Farming",    initial_capital |-> 50000],
       [name |-> "Solar Leasing",    initial_capital |-> 200000],
       [name |-> "Fishing Business", initial_capital |-> 80000],
       [name |-> "Retail Shop",      initial_capital |-> 100000],
       [name |-> "Poultry Farm",     initial_capital |-> 60000],
       [name |-> "Organic Farming",  initial_capital |-> 40000] >>

\* ---------------------------------------------------------------------------
\* Bounds of the model.
\* ---------------------------------------------------------------------------
NumSessions == 2
MaxTime == 1
MaxTypeIdx == 1
MaxSaves == 2
MaxLifeSaves == 12
MaxBusinesses == 1
MaxCounted == 2
MaxAuctionTime == 2
MaxItemIdx == 1
MaxBids == 2
MaxCapitalSaves == 1
MaxStatusBusinesses == 2
MaxTextLen == 4
MaxRaceWrites == 4

Sessions == 1..NumSessions
UserNames == {"asha"}
TypeChoices == 1..(IF MaxTypeIdx < Len(BUSINESS_TYPES) THEN MaxTypeIdx ELSE Len(BUSINESS_TYPES))
AdditionalCapital == {0}

NoUser == <<>>
NoBusiness == -1
NoOption == -1
NoScenario == <<>>

VARIABLES
    now,            \* datetime.now() truncated to seconds
    api_key,        \* whether a provider credential is configured
    users,          \* data["users"]
    businesses,     \* data["businesses"]
    scenarios,      \* data["scenarios"]
    leaderboard,    \* data["leaderboard"]
    auctions,       \* data["auctions"]
    session_state,  \* st.session_state of every browser session
    last,           \* the outcome of the last script run (history)
    recorded,       \* per business: results recorded since its creation (history)
    decisions,      \* per session: results saved for its latest scored selection (history)
    paid,           \* per business: creation capital and accepted bid total (history)
    inserted        \* scores ever passed to update_leaderboard (history)

vars == <<now, api_key, users, businesses, scenarios, leaderboard, auctions,
          session_state, last, recorded, decisions, paid, inserted>>

store == <<users, businesses, scenarios, leaderboard, auctions>>
history == <<last, recorded, decisions, paid, inserted>>

\* d[k] = v for a Python dict d (insert or overwrite)
DictSet(d, k, v) == [x \in DOMAIN d \cup {k} |-> IF x = k THEN v ELSE d[x]]

Max(a, b) == IF a >= b THEN a ELSE b
Min(a, b) == IF a <= b THEN a ELSE b
SetMax(S) == CHOOSE x \in S : \A y \in S : y <= x

\* ---------------------------------------------------------------------------
\* utils/database.py
\* ---------------------------------------------------------------------------
NewUserId(t, user_name) == <<t, user_name>>

create_user(us, t, user_name) ==
    DictSet(us, NewUserId(t, user_name),
            [name |-> user_name, total_score |-> 0, games_played |-> 0])

update_user_score(us, user_id, score) ==
    IF user_id \in DOMAIN us
    THEN [us EXCEPT ![user_id].total_score = @ + score,
                    ![user_id].games_played = @ + 1]
    ELSE us

create_business(bs, t, user_id, business_type, capital) ==
    DictSet(bs, t, [user_id |-> user_id, current_round |-> 1, total_score |-> 0,
                    status |-> "active", business_type |-> business_type,
                    capital |-> capital])

get_user_businesses(bs, user_id) == {b \in DOMAIN bs : bs[b].user_id = user_id}

\* update_business with the merge the wrong way round: stored fields win
update_business_KeepOld(bs, business_id, updates) ==
    IF business_id \in DOMAIN bs
    THEN [bs EXCEPT ![business_id] = @ @@ updates]
    ELSE bs

update_business(bs, business_id, updates) ==
    IF business_id \in DOMAIN bs
    THEN [bs EXCEPT ![business_id] = updates @@ @]
    ELSE bs

save_scenario(sc, t, business_id, scenario_data) ==
    DictSet(sc, t, [business_id |-> business_id] @@ scenario_data)

\* {"created_at": ..., "status": "active", "bids": [], **auction_data} stored
\* under auct_<second>
create_auction(au, t, auction_data) ==
    DictSet(au, t, auction_data @@ [status |-> "active", bids |-> <<>>])

\* place_bid leaving highest_bidder as it was
place_bid_KeepBidder(au, t, auction_id, user_id, bid_amount) ==
    IF auction_id \in DOMAIN au
    THEN [au EXCEPT ![auction_id].bids =
                        Append(@, [user_id |-> user_id, amount |-> bid_amount,
                                   timestamp |-> t]),
                    ![auction_id].current_bid = bid_amount]
    ELSE au

place_bid(au, t, auction_id, user_id, bid_amount) ==
    IF auction_id \in DOMAIN au
    THEN [au EXCEPT ![auction_id].bids =
                        Append(@, [user_id |-> user_id, amount |-> bid_amount,
                                   timestamp |-> t]),
                    ![auction_id].current_bid = bid_amount,
                    ![auction_id].highest_bidder = user_id]
    ELSE au

\* close_auction: status "closed" and closed_at stamped
close_auction(au, t, auction_id) ==
    IF auction_id \in DOMAIN au
    THEN [au EXCEPT ![auction_id] = [closed_at |-> t] @@ [@ EXCEPT !.status = "closed"]]
    ELSE au

\* get_active_auctions returning every stored auction
get_active_auctions_All(au) == DOMAIN au

get_active_auctions(au) == {a \in DOMAIN au : au[a].status = "active"}

\* sorted(entries, key=score, reverse=True): a stable sort, so the result is
\* the entries of the highest score in their order, then those of the next
\* score, and so on
RECURSIVE ConcatByScore(_, _)
ConcatByScore(entries, scores) ==
    IF scores = {} THEN <<>>
    ELSE LET m == SetMax(scores)
         IN  SelectSeq(entries, LAMBDA e : e.score = m)
                 \o ConcatByScore(entries, scores \ {m})

SortedByScoreDesc(entries) ==
    ConcatByScore(entries, {entries[i].score : i \in 1..Len(entries)})

\* update_leaderboard without the sort: append, then cut
update_leaderboard_Unsorted(lb, us, user_id, score, business_type) ==
    LET entry == [user_id |-> user_id, score |-> score, business_type |-> business_type]
        all   == Append(lb, entry)
    IN  SubSeq(all, 1, Min(Len(all), LeaderboardCap))

\* update_leaderboard cutting at the wrong end: sorted(...)[-100:]
update_leaderboard_KeepTail(lb, us, user_id, score, business_type) ==
    LET entry == [user_id |-> user_id, score |-> score, business_type |-> business_type]
        all   == SortedByScoreDesc(Append(lb, entry))
    IN  SubSeq(all, Max(1, Len(all) - LeaderboardCap + 1), Len(all))

update_leaderboard(lb, us, user_id, score, business_type) ==
    LET entry == [user_id |-> user_id, score |-> score, business_type |-> business_type]
        all   == SortedByScoreDesc(Append(lb, entry))
    IN  SubSeq(all, 1, Min(Len(all), LeaderboardCap))

\* data["leaderboard"][:limit], Python slice semantics
get_leaderboard(lb, limit) ==
    LET stop == IF limit >= 0 THEN Min(limit, Len(lb)) ELSE Max(Len(lb) + limit, 0)
    IN  [i \in 1..stop |-> lb[i]]

\* ---------------------------------------------------------------------------
\* utils/ai_manager.py: what generate_scenario can hand to the scenario page.
\* ---------------------------------------------------------------------------
\* the outcome "an exception propagates to the caller", shaped like a record
Raised == [options |-> -1, score_logic |-> <<>>]

\* _get_fallback_scenario builds a dict literal that names `null`, which is not
\* a Python name: every call raises NameError before anything is returned.
get_fallback_scenario(business_type) == Raised

\* A provider answer that parsed as JSON is returned as it is.  The answers the
\* model draws has three options and a score_logic that lacks option_3.
OneScoreScenarios ==
    { [options |-> 3,
       score_logic |-> [k \in {2} |-> [risk |-> 8, reward |-> 9, realism |-> 7]]] }

AIScenarios ==
    { [options |-> 3,
       score_logic |-> [k \in {1, 2} |->
            IF k = 1 THEN [risk |-> 1, reward |-> 1, realism |-> 3]
            ELSE [risk |-> 8, reward |-> 9, realism |-> 7]]] }

\* the set of outcomes of generate_scenario(business_data)
generate_scenario(key, answers, business_type) ==
    IF ~key THEN {get_fallback_scenario(business_type)}
    ELSE answers \cup {get_fallback_scenario(business_type)}

\* ---------------------------------------------------------------------------
\* pages/2_Game_Scenarios.py: scoring
\* ---------------------------------------------------------------------------
\* calculate_score scaling by 100 instead of 10
calculate_score_Percent(risk, reward, realism) ==
    FTrunc(FMulInt(100,
        FAdd(FAdd(FMulInt(risk, SCORING_WEIGHTS.risk),
                  FMulInt(reward, SCORING_WEIGHTS.reward)),
             FMulInt(realism, SCORING_WEIGHTS.realism))))

calculate_score(risk, reward, realism) ==
    FTrunc(FMulInt(10,
        FAdd(FAdd(FMulInt(risk, SCORING_WEIGHTS.risk),
                  FMulInt(reward, SCORING_WEIGHTS.reward)),
             FMulInt(realism, SCORING_WEIGHTS.realism))))

\* get_feedback with exclusive lower bounds
get_feedback_Exclusive(score) ==
    IF score > SCORE_THRESHOLDS.excellent THEN "excellent"
    ELSE IF score > SCORE_THRESHOLDS.good THEN "good"
    ELSE IF score > SCORE_THRESHOLDS.average THEN "average"
    ELSE "poor"

get_feedback(score) ==
    IF score >= SCORE_THRESHOLDS.excellent THEN "excellent"
    ELSE IF score >= SCORE_THRESHOLDS.good THEN "good"
    ELSE IF score >= SCORE_THRESHOLDS.average THEN "average"
    ELSE "poor"

\* ---------------------------------------------------------------------------
\* Initial state: an empty store (_initialize_db) and fresh browser sessions.
\* ---------------------------------------------------------------------------
FreshSession ==
    [user_name |-> "", user_id |-> NoUser, business_id |-> NoBusiness,
     current_scenario |-> NoScenario, scenario_completed |-> FALSE,
     selected_option |-> NoOption, rerun |-> "", new_game_shown |-> FALSE,
     rendered |-> <<>>, wake |-> 0]

NoRun == [op |-> "none"]

Init ==
    /\ now = 0
    /\ api_key \in BOOLEAN
    /\ users = <<>>
    /\ businesses = <<>>
    /\ scenarios = <<>>
    /\ leaderboard = <<>>
    /\ auctions = <<>>
    /\ session_state = [s \in Sessions |-> FreshSession]
    /\ last = NoRun
    /\ recorded = <<>>
    /\ decisions = [s \in Sessions |-> [selected |-> FALSE, saved |-> 0]]
    /\ paid = <<>>
    /\ inserted = <<>>

\* the wall clock passes a second boundary
TickTo(cap) ==
    /\ now < cap
    /\ now' = now + 1
    /\ UNCHANGED <<api_key, store, session_state, history>>

Tick == TickTo(MaxTime)

\* no st.rerun() of this session is waiting to run
Idle(s) == session_state[s].rerun = ""

\* ---------------------------------------------------------------------------
\* app.py: the quick-start form
\* ---------------------------------------------------------------------------
Login(s, name) ==
    /\ Idle(s)
    /\ session_state[s].user_id = NoUser
    /\ session_state[s].user_name # name
    /\ session_state' = [session_state EXCEPT ![s].user_name = name]
    /\ last' = NoRun
    /\ UNCHANGED <<now, api_key, store, recorded, decisions, paid, inserted>>

\* ---------------------------------------------------------------------------
\* pages/1_Business_Setup.py
\* ---------------------------------------------------------------------------
\* lines 51-56, run at the top of every run of the page
SetupUser(s) ==
    IF session_state[s].user_id = NoUser
    THEN [us |-> create_user(users, now, session_state[s].user_name),
          id |-> NewUserId(now, session_state[s].user_name)]
    ELSE [us |-> users, id |-> session_state[s].user_id]

SetupVisit(s) ==
    /\ Idle(s)
    /\ session_state[s].user_name # ""
    /\ session_state[s].user_id = NoUser
    /\ users' = SetupUser(s).us
    /\ session_state' = [session_state EXCEPT ![s].user_id = SetupUser(s).id]
    /\ last' = NoRun
    /\ UNCHANGED <<now, api_key, businesses, scenarios, leaderboard, auctions,
                   recorded, decisions, paid, inserted>>

SetupSubmit(s, ty, additional_capital) ==
    /\ Idle(s)
    /\ session_state[s].user_name # ""
    /\ session_state[s].user_id # NoUser
    /\ LET total_capital == BUSINESS_TYPES[ty].initial_capital + additional_capital
       IN  /\ businesses' = create_business(businesses, now, session_state[s].user_id,
                                            BUSINESS_TYPES[ty].name, total_capital)
           /\ recorded' = DictSet(recorded, now, [n |-> 0, sum |-> 0])
           /\ paid' = DictSet(paid, now, [capital |-> total_capital, spent |-> 0, n |-> 0])
    /\ session_state' = [session_state EXCEPT ![s].business_id = now]
    /\ last' = NoRun
    /\ UNCHANGED <<now, api_key, users, scenarios, leaderboard, auctions,
                   decisions, inserted>>

SetupContinue(s, b) ==
    /\ Idle(s)
    /\ session_state[s].user_name # ""
    /\ session_state[s].user_id # NoUser
    /\ b \in get_user_businesses(businesses, session_state[s].user_id)
    /\ session_state[s].business_id # b
    /\ session_state' = [session_state EXCEPT ![s].business_id = b]
    /\ last' = NoRun
    /\ UNCHANGED <<now, api_key, store, recorded, decisions, paid, inserted>>

\* ---------------------------------------------------------------------------
\* pages/2_Game_Scenarios.py: main()
\* ---------------------------------------------------------------------------
HasBusiness(s) ==
    /\ session_state[s].business_id # NoBusiness
    /\ session_state[s].business_id \in DOMAIN businesses

\* line 172 and line 187: the result block is entered
ResultReached(s) ==
    LET ss == session_state[s]
    IN  /\ ss.current_scenario # NoScenario
        /\ ss.scenario_completed
        /\ ss.selected_option # NoOption
        /\ (ss.selected_option + 1) \in DOMAIN ss.current_scenario[1].score_logic

\* line 263 as a wrong check would have it: the button is always drawn
GameOverAlways(current_round) == TRUE

\* line 263: the game-over branch (final report, Start New Game button)
GameOver(current_round) == current_round >= max_rounds

\* lines 188-249: what one pass through the result block writes
ResultBlock(s) ==
    LET ss            == session_state[s]
        business_data == businesses[ss.business_id]
        metrics       == ss.current_scenario[1].score_logic[ss.selected_option + 1]
        total_score   == calculate_score(metrics.risk, metrics.reward, metrics.realism)
        current_round == business_data.current_round
        current_total == business_data.total_score
        us            == update_user_score(users, ss.user_id, total_score)
    IN  [score      |-> total_score,
         scenarios  |-> save_scenario(scenarios, now, ss.business_id,
                            [round |-> current_round,
                             option_selected |-> ss.selected_option + 1,
                             score |-> total_score, risk |-> metrics.risk,
                             reward |-> metrics.reward, realism |-> metrics.realism]),
         businesses |-> update_business(businesses, ss.business_id,
                            [current_round |-> current_round + 1,
                             total_score |-> current_total + total_score]),
         users      |-> us,
         leaderboard |-> update_leaderboard(leaderboard, us, ss.user_id, total_score,
                                            business_data.business_type),
         game_over  |-> GameOver(current_round)]

BagAdd(bag, x) == DictSet(bag, x, IF x \in DOMAIN bag THEN bag[x] + 1 ELSE 1)

\* the history variables after one pass through the result block
Recorded(s, score) ==
    LET b == session_state[s].business_id
    IN  /\ recorded' = [recorded EXCEPT ![b] = [n |-> @.n + 1, sum |-> @.sum + score]]
        /\ decisions' = [decisions EXCEPT ![s].saved = Min(@ + 1, MaxCounted)]
        /\ inserted' = BagAdd(inserted, score)

\* a run of the page with no widget event: the st.rerun() after a click, or a
\* return to the page from another page of the same session
ScenarioRun(s, cap) ==
    /\ session_state[s].rerun \in {"", "scenarios"}
    /\ HasBusiness(s)
    /\ IF ResultReached(s)
       THEN LET r == ResultBlock(s)
            IN  /\ Len(leaderboard) < cap
                /\ scenarios' = r.scenarios
                /\ businesses' = r.businesses
                /\ users' = r.users
                /\ leaderboard' = r.leaderboard
                /\ Recorded(s, r.score)
                /\ session_state' = [session_state EXCEPT ![s].rerun = "",
                                        ![s].new_game_shown = r.game_over]
                /\ last' = NoRun
       ELSE /\ session_state' = [session_state EXCEPT ![s].rerun = "",
                                        ![s].new_game_shown = FALSE]
            /\ last' = NoRun
            /\ UNCHANGED <<users, businesses, scenarios, leaderboard,
                           recorded, decisions, inserted>>
    /\ UNCHANGED <<now, api_key, auctions, paid>>

\* the Generate New Scenario button drawn whatever the session holds
ScenarioGenerate_Reroll(s, answers) ==
    /\ Idle(s)
    /\ HasBusiness(s)
    /\ \E outcome \in generate_scenario(api_key, answers,
                          businesses[session_state[s].business_id].business_type) :
       session_state' =
         IF outcome = Raised
         THEN [session_state EXCEPT ![s].new_game_shown = FALSE]
         ELSE [session_state EXCEPT ![s].current_scenario = <<outcome>>,
                                    ![s].scenario_completed = FALSE,
                                    ![s].selected_option = NoOption,
                                    ![s].rerun = "scenarios",
                                    ![s].new_game_shown = FALSE]
    /\ last' = NoRun
    /\ UNCHANGED <<now, api_key, store, recorded, decisions, paid, inserted>>

\* lines 124-131: the Generate New Scenario button is clicked
ScenarioGenerate(s, answers) ==
    /\ Idle(s)
    /\ HasBusiness(s)
    /\ session_state[s].current_scenario = NoScenario \/ session_state[s].scenario_completed
    /\ \E outcome \in generate_scenario(api_key, answers,
                          businesses[session_state[s].business_id].business_type) :
       session_state' =
         IF outcome = Raised
         THEN [session_state EXCEPT ![s].new_game_shown = FALSE]
         ELSE [session_state EXCEPT ![s].current_scenario = <<outcome>>,
                                    ![s].scenario_completed = FALSE,
                                    ![s].selected_option = NoOption,
                                    ![s].rerun = "scenarios",
                                    ![s].new_game_shown = FALSE]
    /\ last' = NoRun
    /\ UNCHANGED <<now, api_key, store, recorded, decisions, paid, inserted>>

\* lines 156-169: option button idx is clicked
ScenarioOption(s, idx) ==
    /\ Idle(s)
    /\ HasBusiness(s)
    /\ session_state[s].current_scenario # NoScenario
    /\ ~session_state[s].scenario_completed
    /\ idx \in 1..session_state[s].current_scenario[1].options
    /\ session_state' = [session_state EXCEPT ![s].selected_option = idx - 1,
                                              ![s].scenario_completed = TRUE,
                                              ![s].rerun = "scenarios",
                                              ![s].new_game_shown = FALSE]
    /\ decisions' = [decisions EXCEPT ![s] =
                        [selected |-> idx \in DOMAIN session_state[s].current_scenario[1].score_logic,
                         saved |-> 0]]
    /\ last' = NoRun
    /\ UNCHANGED <<now, api_key, store, recorded, paid, inserted>>

\* lines 281-287: the Start New Game button is clicked.  The click reruns the
\* script from the top, so the result block runs again before the button is
\* reached.
ScenarioNewGame(s, cap) ==
    /\ Idle(s)
    /\ HasBusiness(s)
    /\ session_state[s].new_game_shown
    /\ IF ResultReached(s)
       THEN LET r == ResultBlock(s)
            IN  /\ Len(leaderboard) < cap
                /\ scenarios' = r.scenarios
                /\ users' = r.users
                /\ leaderboard' = r.leaderboard
                /\ Recorded(s, r.score)
                /\ businesses' =
                     IF r.game_over
                     THEN update_business(r.businesses, session_state[s].business_id,
                                          [status |-> "completed"])
                     ELSE r.businesses
                /\ session_state' =
                     IF r.game_over
                     THEN [session_state EXCEPT ![s].current_scenario = NoScenario,
                                                ![s].scenario_completed = FALSE]
                     ELSE [session_state EXCEPT ![s].new_game_shown = FALSE]
                /\ last' = NoRun
       ELSE /\ session_state' = [session_state EXCEPT ![s].new_game_shown = FALSE]
            /\ last' = NoRun
            /\ UNCHANGED <<users, businesses, scenarios, leaderboard,
                           recorded, decisions, inserted>>
    /\ UNCHANGED <<now, api_key, auctions, paid>>

\* Scenario play by every session; the number of recorded results is capped at
\* MaxSaves, below max_rounds, so the Start New Game button is never drawn.
GameNext ==
    \/ Tick
    \/ \E s \in Sessions :
        \/ \E name \in UserNames : Login(s, name)
        \/ SetupVisit(s)
        \/ \E ty \in TypeChoices, add \in AdditionalCapital : SetupSubmit(s, ty, add)
        \/ \E b \in DOMAIN businesses : SetupContinue(s, b)
        \/ ScenarioRun(s, MaxSaves)
        \/ ScenarioGenerate(s, AIScenarios)
        \/ \E idx \in 1..3 : ScenarioOption(s, idx)

SpecGame == Init /\ [][GameNext]_vars

\* One session plays a business through all its rounds and beyond.
LifeSessions == {1}

SetupSubmitCapped(s, ty, add) ==
    /\ now \in DOMAIN businesses \/ Cardinality(DOMAIN businesses) < MaxBusinesses
    /\ SetupSubmit(s, ty, add)

LifeNext ==
    \/ Tick
    \/ \E s \in LifeSessions :
        \/ \E name \in UserNames : Login(s, name)
        \/ SetupVisit(s)
        \/ \E ty \in TypeChoices, add \in AdditionalCapital : SetupSubmitCapped(s, ty, add)
        \/ ScenarioRun(s, MaxLifeSaves)
        \/ ScenarioGenerate(s, OneScoreScenarios)
        \/ \E idx \in 1..3 : ScenarioOption(s, idx)
        \/ ScenarioNewGame(s, MaxLifeSaves)

SpecLife == Init /\ [][LifeNext]_vars

\* ---------------------------------------------------------------------------
\* The leaderboard on its own: update_leaderboard and get_leaderboard called
\* with drawn arguments, often enough for the cap of 100 entries to cut.
\* ---------------------------------------------------------------------------
MaxInserts == 102
LBScores == {15, 81}
LBLimits == {0, 10, 20, 100, 101}
LBUser == <<0, "asha">>

RECURSIVE BagSizeOver(_, _)
BagSizeOver(bag, keys) ==
    IF keys = {} THEN 0
    ELSE LET k == CHOOSE x \in keys : TRUE
         IN  bag[k] + BagSizeOver(bag, keys \ {k})

BagSize(bag) == BagSizeOver(bag, DOMAIN bag)

LBInit == Init /\ ~api_key

LBInsert(score) ==
    /\ BagSize(inserted) < MaxInserts
    /\ leaderboard' = update_leaderboard(leaderboard, users, LBUser, score, "Dairy Farming")
    /\ inserted' = BagAdd(inserted, score)
    /\ last' = NoRun
    /\ UNCHANGED <<now, api_key, users, businesses, scenarios, auctions,
                   session_state, recorded, decisions, paid>>

LBGet(limit) ==
    /\ last' = [op |-> "get_leaderboard", limit |-> limit,
                result |-> get_leaderboard(leaderboard, limit)]
    /\ UNCHANGED <<now, api_key, store, session_state, recorded, decisions, paid, inserted>>

LBNext ==
    \/ \E score \in LBScores : LBInsert(score)
    \/ \E limit \in LBLimits : LBGet(limit)

SpecLB == LBInit /\ [][LBNext]_vars

\* ---------------------------------------------------------------------------
\* pages/3_Auction_Market.py
\* ---------------------------------------------------------------------------
AUCTION_ITEMS ==
    [livestock |-> << [name |-> "Dairy Cow",           base_price |-> 35000],
                      [name |-> "Goat",                base_price |-> 8000],
                      [name |-> "Chickens (10)",       base_price |-> 2000],
                      [name |-> "Buffalo",             base_price |-> 50000] >>,
     equipment |-> << [name |-> "Tractor (Used)",      base_price |-> 150000],
                      [name |-> "Irrigation Pump",     base_price |-> 12000],
                      [name |-> "Milking Machine",     base_price |-> 25000],
                      [name |-> "Solar Panel Set",     base_price |-> 45000] >>,
     land      |-> << [name |-> "1 Acre Farmland",     base_price |-> 200000],
                      [name |-> "0.5 Acre Plot",       base_price |-> 100000],
                      [name |-> "2 Acre Field",        base_price |-> 350000] >>,
     inventory |-> << [name |-> "50kg Seeds",          base_price |-> 5000],
                      [name |-> "Fertilizer (100kg)",  base_price |-> 3000],
                      [name |-> "Animal Feed (500kg)", base_price |-> 8000],
                      [name |-> "Fishing Nets (5)",    base_price |-> 6000] >>]

SampleCategories == <<"livestock", "equipment", "inventory">>

\* random.choice(items), bounded to the first MaxItemIdx items of a category
ItemChoices(category) == 1..Min(MaxItemIdx, Len(AUCTION_ITEMS[category]))

SampleItems ==
    {<<i, j, k>> : i \in ItemChoices("livestock"), j \in ItemChoices("equipment"),
                   k \in ItemChoices("inventory")}

\* int(item["base_price"] * AUCTION_SETTINGS["starting_price_factor"]) of every
\* catalogue item
SamplePrices ==
    [category \in DOMAIN AUCTION_ITEMS |->
        [i \in 1..Len(AUCTION_ITEMS[category]) |->
            FTrunc(FMulInt(AUCTION_ITEMS[category][i].base_price, starting_price_factor))]]

\* the auction_data dict of create_sample_auctions
SampleDataOf(category, item, price) ==
    [item_name |-> item.name, category |-> category,
     starting_price |-> price, current_bid |-> price,
     market_value |-> item.base_price, highest_bidder |-> NoUser]

SampleData(category, i) ==
    SampleDataOf(category, AUCTION_ITEMS[category][i], SamplePrices[category][i])

\* the second in which the j-th create_auction call of one
\* create_sample_auctions reads the clock, when the second changes after the
\* first k calls (k = 3: it does not change)
SampleTime(t, k, j) == IF j <= k THEN t ELSE t + 1

\* datetime.now() + timedelta(seconds=...) in whole seconds
EndsAt(t, seconds) == [ends_at |-> t + seconds]

create_sample_auctions(au, t, items, k) ==
    IF Cardinality(get_active_auctions(au)) < 3
    THEN LET a1 == create_auction(au, SampleTime(t, k, 1),
                                  SampleData(SampleCategories[1], items[1])
                                    @@ EndsAt(SampleTime(t, k, 1), auction_duration))
             a2 == create_auction(a1, SampleTime(t, k, 2),
                                  SampleData(SampleCategories[2], items[2])
                                    @@ EndsAt(SampleTime(t, k, 2), auction_duration))
             a3 == create_auction(a2, SampleTime(t, k, 3),
                                  SampleData(SampleCategories[3], items[3])
                                    @@ EndsAt(SampleTime(t, k, 3), auction_duration))
         IN  [auctions |-> a3, now |-> SampleTime(t, k, 3),
              created |-> {SampleTime(t, k, j) : j \in 1..3}]
    ELSE [auctions |-> au, now |-> t, created |-> {}]

\* the clock may pass a second boundary inside create_sample_auctions
ClockChoices(cap) ==
    IF now < cap /\ Cardinality(get_active_auctions(auctions)) < 3 THEN {1, 2, 3} ELSE {3}

\* lines 116-128: the guards of main() and the capital read at the top of a run
CanBid(s) ==
    /\ session_state[s].user_id # NoUser
    /\ session_state[s].business_id \in DOMAIN businesses

\* lines 127-152: a run up to the list of active auctions it draws
PageOf(available_capital, cs) ==
    [available_capital |-> available_capital,
     auctions |-> cs.auctions, now |-> cs.now, created |-> cs.created,
     active |-> get_active_auctions(cs.auctions)]

AuctionPage(s, items, k) ==
    PageOf(businesses[session_state[s].business_id].capital,
           create_sample_auctions(auctions, now, items, k))

\* what the Live Auctions tab shows: the current bid of every active auction
Rendered(au) == [a \in get_active_auctions(au) |-> au[a].current_bid]

\* line 181
MinBid_NoIncrement(auction) == auction.current_bid

MinBid(auction) == auction.current_bid + min_bid_increment

\* lines 194-199 without the capital check
BidResult_NoCapital(bid_amount, available_capital, min_bid) ==
    IF bid_amount < min_bid THEN "below_min" ELSE "accepted"

\* lines 194-199
BidResult(bid_amount, available_capital, min_bid) ==
    IF bid_amount > available_capital THEN "insufficient"
    ELSE IF bid_amount < min_bid THEN "below_min"
    ELSE "accepted"

\* lines 204-206 without the deduction
BidUpdates_Free(available_capital, bid_amount) == [capital |-> available_capital]

\* lines 204-206 writing a status as well
BidUpdates_Reactivate(available_capital, bid_amount) ==
    [capital |-> available_capital - bid_amount, status |-> "active"]

\* lines 204-206 with the amount credited
BidUpdates_Credit(available_capital, bid_amount) == [capital |-> available_capital + bid_amount]

\* lines 204-206
BidUpdates(available_capital, bid_amount) == [capital |-> available_capital - bid_amount]

\* the amounts a user enters: the minimum the run computes, the minimum the
\* session's last rendering showed, the current bid itself, and more than the
\* business owns
BidChoices(seen, auction, available_capital) ==
    {MinBid(auction), seen + min_bid_increment, auction.current_bid,
     available_capital + min_bid_increment}

\* a run that draws the page and handles no form
RenderPage(s, page) ==
    /\ auctions' = page.auctions
    /\ now' = page.now
    /\ session_state' = [session_state EXCEPT ![s].rendered = Rendered(page.auctions),
                                              ![s].rerun = "", ![s].wake = 0]
    /\ last' = [op |-> "visit", created |-> page.created]
    /\ UNCHANGED <<api_key, users, businesses, scenarios, leaderboard,
                   recorded, decisions, paid, inserted>>

\* a plain visit of the page, or a click on Refresh Auctions
AuctionVisit(s, items, k) ==
    /\ Idle(s)
    /\ CanBid(s)
    /\ RenderPage(s, AuctionPage(s, items, k))

\* the st.rerun() after time.sleep(1) (lines 209-210, 328-329)
AuctionRerun(s, items, k) ==
    /\ session_state[s].rerun = "auctions"
    /\ now >= session_state[s].wake
    /\ CanBid(s)
    /\ RenderPage(s, AuctionPage(s, items, k))

\* lines 194-210: the submitted bid_amount handled
BidHandled(s, a, page, business, user_id, bid_amount, result) ==
    /\ auctions' = IF result = "accepted"
                   THEN place_bid(page.auctions, page.now, a, user_id, bid_amount)
                   ELSE page.auctions
    /\ businesses' = IF result = "accepted"
                     THEN update_business(businesses, business,
                                          BidUpdates(page.available_capital, bid_amount))
                     ELSE businesses
    /\ paid' = IF result = "accepted"
               THEN [paid EXCEPT ![business].spent = @ + bid_amount, ![business].n = @ + 1]
               ELSE paid
    /\ session_state' =
          IF result = "accepted"
          THEN [session_state EXCEPT ![s].rerun = "auctions", ![s].wake = page.now + 1]
          ELSE [session_state EXCEPT ![s].rendered = Rendered(page.auctions)]
    /\ last' = [op |-> "bid", session |-> s, auction_id |-> a,
                user_id |-> user_id, business_id |-> business,
                amount |-> bid_amount, result |-> result,
                timestamp |-> page.now,
                seen |-> session_state[s].rendered[a],
                available_capital |-> page.available_capital,
                pre_auctions |-> page.auctions,
                pre_businesses |-> businesses,
                created |-> page.created]
    /\ now' = page.now
    /\ UNCHANGED <<api_key, users, scenarios, leaderboard, recorded, decisions, inserted>>

\* lines 180-199: the form of auction a as the run draws it, and its checks
BidSubmit(s, a, page) ==
    /\ a \in page.active
    /\ Len(page.auctions[a].bids) < MaxBids
    /\ paid[session_state[s].business_id].n < MaxBids
    /\ \E bid_amount \in BidChoices(session_state[s].rendered[a], page.auctions[a],
                                    page.available_capital) :
           BidHandled(s, a, page, session_state[s].business_id, session_state[s].user_id,
                      bid_amount,
                      BidResult(bid_amount, page.available_capital, MinBid(page.auctions[a])))

\* the Place Bid form of auction a submitted
AuctionBid(s, a, items, k) ==
    /\ Idle(s)
    /\ CanBid(s)
    /\ a \in DOMAIN session_state[s].rendered
    /\ BidSubmit(s, a, AuctionPage(s, items, k))

\* what a seller types into the Sell Items form
SellTexts == {[item_name |-> "", description |-> ""],
              [item_name |-> "Plough", description |-> "Iron plough"]}
SellPrices == {[market_value |-> 10000, starting_price |-> 7000]}
\* duration_map[duration] of the preselected "5 minutes"
SellDuration == 300

\* lines 303-329: the submitted form handled
SellHandled(s, page, auction_data, ok) ==
    /\ auctions' = IF ok THEN create_auction(page.auctions, page.now, auction_data)
                   ELSE page.auctions
    /\ session_state' =
          IF ok
          THEN [session_state EXCEPT ![s].rendered = Rendered(page.auctions),
                                     ![s].rerun = "auctions", ![s].wake = page.now + 1]
          ELSE [session_state EXCEPT ![s].rendered = Rendered(page.auctions)]
    /\ last' = [op |-> "sell",
                created |-> IF ok THEN page.created \cup {page.now} ELSE page.created]
    /\ now' = page.now
    /\ UNCHANGED <<api_key, users, businesses, scenarios, leaderboard,
                   recorded, decisions, paid, inserted>>

\* lines 258-329: the Sell Items form submitted
AuctionSell(s, texts, prices, items, k) ==
    /\ Idle(s)
    /\ CanBid(s)
    /\ SellHandled(s, AuctionPage(s, items, k),
                   [item_name |-> texts.item_name, category |-> "equipment",
                    starting_price |-> prices.starting_price,
                    current_bid |-> prices.starting_price,
                    market_value |-> prices.market_value,
                    seller_id |-> session_state[s].user_id, highest_bidder |-> NoUser]
                     @@ EndsAt(AuctionPage(s, items, k).now, SellDuration),
                   texts.item_name # "" /\ texts.description # "")

\* Two sessions set up one business each and use the auction market.
AuctionInit == Init /\ ~api_key

SetupSubmitOnce(s, ty, add) ==
    /\ session_state[s].business_id = NoBusiness
    /\ SetupSubmit(s, ty, add)

AuctionNext ==
    \/ TickTo(MaxAuctionTime)
    \/ \E s \in Sessions, name \in UserNames : Login(s, name)
    \/ \E s \in Sessions : SetupVisit(s)
    \/ \E s \in Sessions, ty \in TypeChoices, add \in AdditionalCapital :
           SetupSubmitOnce(s, ty, add)
    \/ \E s \in Sessions, items \in SampleItems, k \in ClockChoices(MaxAuctionTime) :
           AuctionVisit(s, items, k)
    \/ \E s \in Sessions, items \in SampleItems, k \in ClockChoices(MaxAuctionTime) :
           AuctionRerun(s, items, k)
    \/ \E s \in Sessions, items \in SampleItems, k \in ClockChoices(MaxAuctionTime),
          a \in DOMAIN auctions :
           AuctionBid(s, a, items, k)
    \/ \E s \in Sessions, items \in SampleItems, k \in ClockChoices(MaxAuctionTime),
          texts \in SellTexts, prices \in SellPrices :
           AuctionSell(s, texts, prices, items, k)

SpecAuction == AuctionInit /\ [][AuctionNext]_vars

\* ---------------------------------------------------------------------------
\* Capital over a business's life: two sessions set up a business each, play
\* scenarios and bid, and an operator closes auctions (close_auction has no
\* caller in the pages; it is called on the store directly).
\* ---------------------------------------------------------------------------
CloseAuction(a) ==
    /\ a \in DOMAIN auctions
    /\ auctions[a].status = "active"
    /\ auctions' = close_auction(auctions, now, a)
    /\ last' = NoRun
    /\ UNCHANGED <<now, api_key, users, businesses, scenarios, leaderboard,
                   session_state, recorded, decisions, paid, inserted>>

\* random.choice always draws the first item of its category, and the three
\* sample auctions of one run are created within one second
CapitalItems == {<<1, 1, 1>>}
CapitalClock == {3}

CapitalNext ==
    \/ TickTo(MaxTime)
    \/ \E s \in Sessions, name \in UserNames : Login(s, name)
    \/ \E s \in Sessions : SetupVisit(s)
    \/ \E s \in Sessions, ty \in TypeChoices, add \in AdditionalCapital :
           SetupSubmitOnce(s, ty, add)
    \/ \E s \in LifeSessions : ScenarioRun(s, MaxCapitalSaves)
    \/ \E s \in LifeSessions : ScenarioGenerate(s, OneScoreScenarios)
    \/ \E s \in LifeSessions, idx \in 1..3 : ScenarioOption(s, idx)
    \/ \E s \in Sessions, items \in CapitalItems, k \in CapitalClock :
           AuctionVisit(s, items, k)
    \/ \E s \in Sessions, items \in CapitalItems, k \in CapitalClock :
           AuctionRerun(s, items, k)
    \/ \E s \in Sessions, items \in CapitalItems, k \in CapitalClock,
          a \in DOMAIN auctions :
           AuctionBid(s, a, items, k)
    \/ \E a \in DOMAIN auctions : CloseAuction(a)

\* a credential is configured, so that scenarios are generated and answered
CapitalInit == Init /\ api_key

SpecCapital == CapitalInit /\ [][CapitalNext]_vars

\* ---------------------------------------------------------------------------
\* A business through completion and after: one session sets up a business,
\* plays it through max_rounds and clicks Start New Game; once a business is
\* completed the session also sets up a further business, continues either
\* from the setup page, plays on and bids.
\* ---------------------------------------------------------------------------
AnyCompleted == \E b \in DOMAIN businesses : businesses[b].status = "completed"

StatusSubmit(s, ty, add) ==
    /\ IF businesses = <<>> THEN TRUE
       ELSE IF now \in DOMAIN businesses THEN AnyCompleted
       ELSE AnyCompleted /\ Cardinality(DOMAIN businesses) < MaxStatusBusinesses
    /\ SetupSubmit(s, ty, add)

\* the business type the session picks, and the option (the one the scenario scores)
StatusTypes == {1}
StatusOptions == {2}

StatusNext ==
    \/ TickTo(MaxTime)
    \/ \E s \in LifeSessions, name \in UserNames : Login(s, name)
    \/ \E s \in LifeSessions : SetupVisit(s)
    \/ \E s \in LifeSessions, ty \in StatusTypes, add \in AdditionalCapital :
           StatusSubmit(s, ty, add)
    \/ \E s \in LifeSessions, b \in DOMAIN businesses : SetupContinue(s, b)
    \/ \E s \in LifeSessions : ScenarioRun(s, MaxLifeSaves)
    \/ \E s \in LifeSessions : ScenarioGenerate(s, OneScoreScenarios)
    \/ \E s \in LifeSessions, idx \in StatusOptions : ScenarioOption(s, idx)
    \/ \E s \in LifeSessions : ScenarioNewGame(s, MaxLifeSaves)
    \/ \E s \in LifeSessions, items \in CapitalItems, k \in CapitalClock :
           AnyCompleted /\ AuctionVisit(s, items, k)
    \/ \E s \in LifeSessions, items \in CapitalItems, k \in CapitalClock :
           AuctionRerun(s, items, k)
    \/ \E s \in LifeSessions, items \in CapitalItems, k \in CapitalClock,
          a \in DOMAIN auctions :
           AuctionBid(s, a, items, k)

SpecStatus == CapitalInit /\ [][StatusNext]_vars

\* ---------------------------------------------------------------------------
\* The scoring functions alone: calculate_score is called on any three metrics
\* of 0..MaxMetric and then again with one of them raised by one; last keeps
\* the call and the one before it.
\* ---------------------------------------------------------------------------
Metrics == 0..MaxMetric

ScoreCallOf(risk, reward, realism, before) ==
    [op |-> "calculate_score", risk |-> risk, reward |-> reward, realism |-> realism,
     score |-> calculate_score(risk, reward, realism), before |-> before]

ScoreCall(risk, reward, realism) ==
    /\ last = NoRun
    /\ last' = ScoreCallOf(risk, reward, realism, -1)
    /\ UNCHANGED <<now, api_key, store, session_state, recorded, decisions, paid, inserted>>

ScoreRaise(d) ==
    /\ last.op = "calculate_score"
    /\ last.risk + d[1] \in Metrics
    /\ last.reward + d[2] \in Metrics
    /\ last.realism + d[3] \in Metrics
    /\ last' = ScoreCallOf(last.risk + d[1], last.reward + d[2], last.realism + d[3],
                           last.score)
    /\ UNCHANGED <<now, api_key, store, session_state, recorded, decisions, paid, inserted>>

OneRaised == {<<1, 0, 0>>, <<0, 1, 0>>, <<0, 0, 1>>}

\* get_feedback is called on any integer score in and around 0..100
FeedbackScores == -20..120

FeedbackCall(score) ==
    /\ last' = [op |-> "get_feedback", score |-> score, tier |-> get_feedback(score)]
    /\ UNCHANGED <<now, api_key, store, session_state, recorded, decisions, paid, inserted>>

ScoreNext ==
    \/ \E risk \in Metrics, reward \in Metrics, realism \in Metrics :
           ScoreCall(risk, reward, realism)
    \/ \E d \in OneRaised : ScoreRaise(d)
    \/ \E score \in FeedbackScores : FeedbackCall(score)

SpecScore == AuctionInit /\ [][ScoreNext]_vars

\* ---------------------------------------------------------------------------
\* utils/ai_manager.py: one generate_scenario call, given the business data it
\* is passed and what the provider does.  null stands for JSON null / None.
\* ---------------------------------------------------------------------------
null == "null"

OptionKeys == {"option_1", "option_2", "option_3"}

ScoreLogic(m1, m2, m3) ==
    [k \in OptionKeys |->
        LET m == IF k = "option_1" THEN m1 ELSE IF k = "option_2" THEN m2 ELSE m3
        IN  [risk |-> m[1], reward |-> m[2], realism |-> m[3]]]

\* lines 234-279: the table of hardcoded scenarios as its literal is written
FallbackTable ==
    [type \in {"Dairy Farming", "Solar Leasing"} |->
        IF type = "Dairy Farming"
        THEN [scenario |-> "Dairy Farming", options |-> 3, consequences |-> 3,
              score_logic |-> ScoreLogic(<<2, 5, 9>>, <<8, 9, 7>>, <<4, 7, 8>>),
              event |-> [description |-> "text", impact |-> "text"]]
        ELSE [scenario |-> "Solar Leasing", options |-> 3, consequences |-> 3,
              score_logic |-> ScoreLogic(<<8, 8, 6>>, <<3, 7, 9>>, <<4, 6, 8>>),
              event |-> [description |-> null, impact |-> null]]]

\* business_data as the callers build it; NoType is a record without the key
NoType == ""
BusinessData ==
    [business_type : {"Dairy Farming", "Solar Leasing", "Poultry Farming", NoType},
     location : {"Rampur", "Sitapur"},
     round : {1, 2}]

\* line 232: business_data.get('business_type', 'General Business')
BusinessTypeOf(business_data) ==
    IF business_data.business_type = NoType THEN "General Business"
    ELSE business_data.business_type

\* what the provider's answer holds once _extract_json has parsed it: a
\* scenario as the prompt asks for it, and objects that are valid JSON but not
\* such a scenario
ProviderValues ==
    { [scenario |-> "generated", options |-> 3, consequences |-> 3,
       score_logic |-> ScoreLogic(<<1, 1, 3>>, <<8, 9, 7>>, <<10, 0, 5>>),
       event |-> [description |-> null, impact |-> null]],
      [scenario |-> "generated", options |-> 2, consequences |-> 3,
       score_logic |-> ScoreLogic(<<1, 1, 3>>, <<8, 9, 7>>, <<10, 0, 5>>),
       event |-> [description |-> "text", impact |-> "text"]],
      [scenario |-> "generated", options |-> 3, consequences |-> 3,
       score_logic |-> ScoreLogic(<<11, 1, 3>>, <<8, 9, 7>>, <<10, 0, 5>>),
       event |-> [description |-> "text", impact |-> "text"]],
      [scenario |-> "generated", options |-> 3, consequences |-> 3,
       score_logic |-> ScoreLogic(<<1, 1, 3>>, <<8, 9, 7>>, <<10, 0, 5>>),
       event |-> [description |-> "text", impact |-> null]] }

\* what requests.post and the response hold: an exception of requests, an
\* error status, a body without generated_text, a text without JSON, or a
\* text whose JSON is value
ProviderResponses ==
    [kind : {"connection_error", "timeout", "http_error", "bad_envelope", "no_json"},
     value : {<<>>}]
    \cup [kind : {"json"}, value : ProviderValues]

\* lines 89-115: raises on every response but a text that holds JSON, and
\* returns that JSON as parsed
call_huggingface(response) ==
    IF response.kind = "json"
    THEN [raised |-> FALSE, value |-> response.value]
    ELSE [raised |-> TRUE, value |-> <<>>]

\* lines 35-61
generate_scenario_once(key, business_data, response) ==
    IF ~key THEN get_fallback_scenario(BusinessTypeOf(business_data))
    ELSE LET r == call_huggingface(response)
         IN  IF r.raised THEN get_fallback_scenario(BusinessTypeOf(business_data))
             ELSE r.value

AICall(business_data, response) ==
    /\ last' = [op |-> "generate_scenario", key |-> api_key,
                business_data |-> business_data, response |-> response,
                outcome |-> generate_scenario_once(api_key, business_data, response),
                before |-> IF last.op = "generate_scenario"
                           THEN <<[business_type |-> last.business_data.business_type,
                                   outcome |-> last.outcome]>>
                           ELSE <<>>]
    /\ UNCHANGED <<now, api_key, store, session_state, recorded, decisions, paid, inserted>>

AINext == \E business_data \in BusinessData, response \in ProviderResponses :
             AICall(business_data, response)

SpecAI == Init /\ [][AINext]_vars

\* ---------------------------------------------------------------------------
\* utils/ai_manager.py: _extract_json.  A text is a sequence of the pieces the
\* function's three tiers tell apart: braces, the double quote, the colon, the
\* fence ``` and the word json (which is no JSON literal).  White space is left
\* out.  The JSON of these pieces is a string ("..." without a quote inside) or
\* an object: {} or {"...": value}.
\* ---------------------------------------------------------------------------
LB == "{"
RB == "}"
Quote == "quote"
Colon == ":"
Fence == "fence"
Word == "json"
Pieces == {LB, RB, Quote, Colon, Fence, Word}

\* the index after the string that starts at i, 0 if there is none
StringEnd(text, i) ==
    IF i > Len(text) \/ text[i] # Quote THEN 0
    ELSE LET closing == {j \in (i + 1)..Len(text) : text[j] = Quote}
         IN  IF closing = {} THEN 0
             ELSE (CHOOSE j \in closing : \A k \in closing : j <= k) + 1

\* the index after the JSON value that starts at i, 0 if there is none
RECURSIVE ValueEnd(_, _)
ValueEnd(text, i) ==
    IF i > Len(text) THEN 0
    ELSE IF text[i] = Quote THEN StringEnd(text, i)
    ELSE IF text[i] # LB THEN 0
    ELSE IF i + 1 <= Len(text) /\ text[i + 1] = RB THEN i + 2
    ELSE LET k == StringEnd(text, i + 1)
         IN  IF k = 0 \/ k > Len(text) THEN 0
             ELSE IF text[k] # Colon THEN 0
             ELSE LET v == ValueEnd(text, k + 1)
                  IN  IF v = 0 \/ v > Len(text) THEN 0
                      ELSE IF text[v] # RB THEN 0
                      ELSE v + 1

\* json.loads(text): the value, or JSONDecodeError
json_loads(text) ==
    IF text # <<>> /\ ValueEnd(text, 1) = Len(text) + 1
    THEN [raised |-> FALSE, value |-> text, error |-> ""]
    ELSE [raised |-> TRUE, value |-> <<>>, error |-> "JSONDecodeError"]

NoMatch == <<"no match">>

\* re.search(r'```json\s*(\{.*?\})\s*```', text, re.DOTALL): group 1 of the
\* leftmost match, its closing brace the nearest one that a fence follows
FencedMatch(text) ==
    LET n == Len(text)
        closes(i) == {j \in (i + 3)..(n - 1) : text[j] = RB /\ text[j + 1] = Fence}
        starts == {i \in 1..(n - 4) :
                      /\ text[i] = Fence /\ text[i + 1] = Word /\ text[i + 2] = LB
                      /\ closes(i) # {}}
    IN  IF starts = {} THEN NoMatch
        ELSE LET i == CHOOSE a \in starts : \A b \in starts : a <= b
                 j == CHOOSE a \in closes(i) : \A b \in closes(i) : a <= b
             IN  SubSeq(text, i + 2, j)

\* re.search(r'\{.*\}', text, re.DOTALL): from the first { to the last }
BraceMatch(text) ==
    LET opens == {i \in 1..Len(text) : text[i] = LB}
    IN  IF opens = {} THEN NoMatch
        ELSE LET i == CHOOSE a \in opens : \A b \in opens : a <= b
                 closes == {j \in (i + 1)..Len(text) : text[j] = RB}
             IN  IF closes = {} THEN NoMatch
                 ELSE SubSeq(text, i, CHOOSE a \in closes : \A b \in closes : a >= b)

\* lines 142-159
extract_json(text) ==
    IF ~json_loads(text).raised THEN json_loads(text)
    ELSE IF FencedMatch(text) # NoMatch THEN json_loads(FencedMatch(text))
    ELSE IF BraceMatch(text) # NoMatch THEN json_loads(BraceMatch(text))
    ELSE [raised |-> TRUE, value |-> <<>>, error |-> "ValueError"]

\* every text of up to MaxTextLen pieces, and longer answers of a model
ShortTexts == UNION {[1..n -> Pieces] : n \in 0..MaxTextLen}

LongTexts ==
    { <<Word, Fence, Word, LB, Quote, Word, Quote, Colon, LB, RB, RB, Fence, Word>>,
      <<Fence, Word, LB, RB, Fence, Word, Fence, Word, LB, Word, RB, Fence>>,
      <<Word, LB, Quote, Word, Quote, Colon, Quote, Quote, RB, Word, LB, RB>>,
      <<LB, Quote, Word, Quote, Colon, Quote, Fence, Word, LB, Word, RB, Fence, Quote, RB, Word>>,
      <<Fence, Word, LB, Quote, Word, Quote, Colon, Quote, RB, Fence, Quote, RB, Fence>> }

ExtractCall(text) ==
    /\ last = NoRun
    /\ last' = [op |-> "_extract_json", text |-> text, result |-> extract_json(text)]
    /\ UNCHANGED <<now, api_key, store, session_state, recorded, decisions, paid, inserted>>

ExtractNext == \E text \in ShortTexts \cup LongTexts : ExtractCall(text)

SpecExtract == AuctionInit /\ [][ExtractNext]_vars

\* ---------------------------------------------------------------------------
\* utils/database.py: a public operation whose _read_data fails (file missing,
\* malformed or unreadable).  _read_data (lines 37-44) catches the exception
\* and returns {}; the operation goes on with that document.
\* ---------------------------------------------------------------------------
EmptyDocument == <<>>

\* the key each operation subscripts first (data["users"], ...); get_statistics
\* reads every key with data.get(key, {})
FirstSubscript ==
    [create_user |-> "users", get_user |-> "users", update_user_score |-> "users",
     create_business |-> "businesses", get_business |-> "businesses",
     save_scenario |-> "scenarios", update_leaderboard |-> "users",
     create_auction |-> "auctions", place_bid |-> "auctions",
     get_active_auctions |-> "auctions", get_statistics |-> ""]

\* how the operation ends on the document data: data[key] of a missing key
\* raises KeyError before anything is written
OperationOn(data, operation) ==
    IF FirstSubscript[operation] = "" \/ FirstSubscript[operation] \in DOMAIN data
    THEN "returned"
    ELSE "KeyError"

ReadFailure(operation) ==
    /\ last' = [op |-> "read_failure", operation |-> operation, data |-> EmptyDocument,
                outcome |-> OperationOn(EmptyDocument, operation)]
    /\ UNCHANGED <<now, api_key, store, session_state, recorded, decisions, paid, inserted>>

ReadNext ==
    \/ TickTo(MaxTime)
    \/ \E s \in Sessions, name \in UserNames : Login(s, name)
    \/ \E s \in Sessions : SetupVisit(s)
    \/ \E s \in Sessions, ty \in TypeChoices, add \in AdditionalCapital :
           SetupSubmit(s, ty, add)
    \/ \E operation \in DOMAIN FirstSubscript : ReadFailure(operation)

SpecRead == AuctionInit /\ [][ReadNext]_vars

\* ---------------------------------------------------------------------------
\* utils/database.py without the one-run-at-a-time assumption: every operation
\* reads the whole document (_read_data), changes its copy and dumps the copy
\* over the file (_write_data); the scripts of two sessions run in separate
\* threads, so another session's read or write may fall between the two.
\* last.pending holds each session's copy between its read and its write.
\* ---------------------------------------------------------------------------
read_data ==
    [users |-> users, businesses |-> businesses, scenarios |-> scenarios,
     leaderboard |-> leaderboard, auctions |-> auctions]

\* _write_data with the dump failing silently (lines 51-52)
write_data_Failed(stored, data) == stored

\* lines 46-50: the file is truncated and the copy dumped
write_data(stored, data) == data

RaceUser == NewUserId(0, "asha")

RaceOperations ==
    {[name |-> "update_user_score", amount |-> 15],
     [name |-> "update_leaderboard", amount |-> 81],
     [name |-> "place_bid", amount |-> 3600],
     [name |-> "place_bid", amount |-> 3700]}

\* the copy after the operation changed it, just before _write_data
Changed(data, o, t) ==
    CASE o.name = "update_user_score" ->
            [data EXCEPT !.users = update_user_score(@, RaceUser, o.amount)]
      [] o.name = "update_leaderboard" ->
            [data EXCEPT !.leaderboard =
                update_leaderboard(@, data.users, RaceUser, o.amount, BUSINESS_TYPES[1].name)]
      [] o.name = "place_bid" ->
            [data EXCEPT !.auctions = place_bid(@, t, 0, RaceUser, o.amount)]

NoRace == [op |-> "race", pending |-> [s \in Sessions |-> <<>>], writes |-> 0, done |-> <<>>]

RaceInit ==
    /\ now = 0
    /\ api_key = FALSE
    /\ users = create_user(<<>>, 0, "asha")
    /\ businesses = <<>>
    /\ scenarios = <<>>
    /\ leaderboard = <<>>
    /\ auctions = create_sample_auctions(<<>>, 0, <<1, 1, 1>>, 3).auctions
    /\ session_state = [s \in Sessions |-> FreshSession]
    /\ last = NoRace
    /\ recorded = <<>>
    /\ decisions = [s \in Sessions |-> [selected |-> FALSE, saved |-> 0]]
    /\ paid = <<>>
    /\ inserted = <<>>

\* session s enters operation o: data = self._read_data()
RaceRead(s, o) ==
    /\ last.pending[s] = <<>>
    /\ last.writes + Cardinality({x \in Sessions : last.pending[x] # <<>>}) < MaxRaceWrites
    /\ last' = [last EXCEPT !.pending[s] = <<[o |-> o, data |-> read_data, first |-> <<>>]>>,
                            !.done = <<>>]
    /\ UNCHANGED <<now, api_key, store, session_state, recorded, decisions, paid, inserted>>

\* session s leaves its operation: self._write_data(data).  A session that read
\* the same document and has not written yet is marked as overtaken; done
\* describes the write of a session that was overtaken.
RaceWrite(s) ==
    /\ last.pending[s] # <<>>
    /\ LET mine   == last.pending[s][1]
           data   == write_data(read_data, Changed(mine.data, mine.o, now))
       IN  /\ users' = data.users
           /\ businesses' = data.businesses
           /\ scenarios' = data.scenarios
           /\ leaderboard' = data.leaderboard
           /\ auctions' = data.auctions
           /\ last' = [last EXCEPT
                 !.pending = [x \in Sessions |->
                     IF x = s THEN <<>>
                     ELSE IF last.pending[x] # <<>> /\ last.pending[x][1].first = <<>>
                             /\ last.pending[x][1].data = mine.data
                          THEN <<[last.pending[x][1] EXCEPT !.first = <<mine.o>>]>>
                          ELSE last.pending[x]],
                 !.writes = @ + 1,
                 !.done = IF mine.first # <<>> THEN <<mine>> ELSE <<>>]
    /\ UNCHANGED <<now, api_key, session_state, recorded, decisions, paid, inserted>>

RaceNext ==
    \/ \E s \in Sessions, o \in RaceOperations : RaceRead(s, o)
    \/ \E s \in Sessions : RaceWrite(s)

SpecRace == RaceInit /\ [][RaceNext]_vars

\* ---------------------------------------------------------------------------
\* Auctions past their end: one session sets up a business, visits the auction
\* market and bids, an operator closes auctions, and the clock also advances
\* by a whole auction_duration, so that sample auctions outlive their ends_at.
\* ---------------------------------------------------------------------------
ExpiryWait ==
    /\ now <= MaxTime
    /\ now' = now + auction_duration
    /\ UNCHANGED <<api_key, store, session_state, history>>

ExpiryNext ==
    \/ TickTo(MaxTime)
    \/ ExpiryWait
    \/ \E s \in LifeSessions, name \in UserNames : Login(s, name)
    \/ \E s \in LifeSessions : SetupVisit(s)
    \/ \E s \in LifeSessions, ty \in TypeChoices, add \in AdditionalCapital :
           SetupSubmitOnce(s, ty, add)
    \/ \E s \in LifeSessions, items \in CapitalItems, k \in CapitalClock :
           AuctionVisit(s, items, k)
    \/ \E s \in LifeSessions, items \in CapitalItems, k \in CapitalClock :
           AuctionRerun(s, items, k)
    \/ \E s \in LifeSessions, items \in CapitalItems, k \in CapitalClock,
          a \in DOMAIN auctions :
           AuctionBid(s, a, items, k)
    \/ \E a \in DOMAIN auctions : CloseAuction(a)

SpecExpiry == AuctionInit /\ [][ExpiryNext]_vars

\* ---------------------------------------------------------------------------
\* Auctions as they are created: one session sets up a business, visits the
\* auction market, where random.choice draws any item of a category, and
\* lists items of its own.
\* ---------------------------------------------------------------------------
CatalogueItems ==
    {<<i, j, k>> : i \in 1..Len(AUCTION_ITEMS.livestock),
                   j \in 1..Len(AUCTION_ITEMS.equipment),
                   k \in 1..Len(AUCTION_ITEMS.inventory)}

\* the two number inputs of the Sell Items form: market_value from 1000 and
\* starting_price from 500 up to market_value
ListingPrices ==
    {[market_value |-> 1000, starting_price |-> 500],
     [market_value |-> 1000, starting_price |-> 1000],
     [market_value |-> 10000, starting_price |-> 7000],
     [market_value |-> 10000, starting_price |-> 10000]}

ListingNext ==
    \/ TickTo(MaxAuctionTime)
    \/ \E s \in LifeSessions, name \in UserNames : Login(s, name)
    \/ \E s \in LifeSessions : SetupVisit(s)
    \/ \E s \in LifeSessions, ty \in TypeChoices, add \in AdditionalCapital :
           SetupSubmitOnce(s, ty, add)
    \/ \E s \in LifeSessions, items \in CatalogueItems, k \in ClockChoices(MaxAuctionTime) :
           AuctionVisit(s, items, k)
    \/ \E s \in LifeSessions, items \in CatalogueItems, k \in ClockChoices(MaxAuctionTime) :
           AuctionRerun(s, items, k)
    \/ \E s \in LifeSessions, items \in CatalogueItems, k \in ClockChoices(MaxAuctionTime),
          texts \in SellTexts, prices \in ListingPrices :
           AuctionSell(s, texts, prices, items, k)

SpecListing == AuctionInit /\ [][ListingNext]_vars

\* ---------------------------------------------------------------------------
\* One business in several sessions: every session logs in under the same
\* name, one of them sets up a business, the others continue it from the setup
\* page, and all of them bid with it.
\* ---------------------------------------------------------------------------
SharedNext ==
    \/ TickTo(MaxTime)
    \/ \E s \in Sessions, name \in UserNames : Login(s, name)
    \/ \E s \in Sessions : SetupVisit(s)
    \/ \E s \in Sessions, ty \in TypeChoices, add \in AdditionalCapital :
           SetupSubmitOnce(s, ty, add)
    \/ \E s \in Sessions, b \in DOMAIN businesses : SetupContinue(s, b)
    \/ \E s \in Sessions, items \in CapitalItems, k \in CapitalClock :
           AuctionVisit(s, items, k)
    \/ \E s \in Sessions, items \in CapitalItems, k \in CapitalClock :
           AuctionRerun(s, items, k)
    \/ \E s \in Sessions, items \in CapitalItems, k \in CapitalClock,
          a \in DOMAIN auctions :
           AuctionBid(s, a, items, k)

SpecShared == AuctionInit /\ [][SharedNext]_vars

\* ---------------------------------------------------------------------------
\* utils/database.py: what the final report reads back
\* ---------------------------------------------------------------------------
get_business_scenarios(sc, business_id) ==
    {id \in DOMAIN sc : sc[id].business_id = business_id}

\* the fields the final report shows; with no scenario the dict has no
\* total_score
get_business_analytics(sc, business_id) ==
    LET ids == get_business_scenarios(sc, business_id)
    IN  IF ids = {} THEN [total_rounds |-> 0]
        ELSE [total_rounds |-> Cardinality(ids),
              total_score |-> BagSizeOver([id \in ids |-> sc[id].score], ids)]

\* ---------------------------------------------------------------------------
\* Bids as the store applies them: one session sets up a business, visits the
\* auction market and bids, an operator closes auctions, and place_bid is also
\* called on the store directly, for any stored auction and for an ID the
\* store does not hold.
\* ---------------------------------------------------------------------------
PlaceBid(a, user_id, bid_amount) ==
    /\ a \in DOMAIN auctions => Len(auctions[a].bids) < MaxBids
    /\ auctions' = place_bid(auctions, now, a, user_id, bid_amount)
    /\ last' = [op |-> "place_bid", auction_id |-> a, user_id |-> user_id,
                amount |-> bid_amount, pre_auctions |-> auctions,
                pre_businesses |-> businesses]
    /\ UNCHANGED <<now, api_key, users, businesses, scenarios, leaderboard,
                   session_state, recorded, decisions, paid, inserted>>

BidNext ==
    \/ TickTo(MaxTime)
    \/ \E s \in LifeSessions, name \in UserNames : Login(s, name)
    \/ \E s \in LifeSessions : SetupVisit(s)
    \/ \E s \in LifeSessions, ty \in TypeChoices, add \in AdditionalCapital :
           SetupSubmitOnce(s, ty, add)
    \/ \E s \in LifeSessions, items \in CapitalItems, k \in CapitalClock :
           AuctionVisit(s, items, k)
    \/ \E s \in LifeSessions, items \in CapitalItems, k \in CapitalClock :
           AuctionRerun(s, items, k)
    \/ \E s \in LifeSessions, items \in CapitalItems, k \in CapitalClock,
          a \in DOMAIN auctions :
           AuctionBid(s, a, items, k)
    \/ \E a \in DOMAIN auctions : CloseAuction(a)
    \/ \E a \in DOMAIN auctions \cup {now + 1}, user_id \in DOMAIN users :
           PlaceBid(a, user_id, IF a \in DOMAIN auctions THEN MinBid(auctions[a])
                                ELSE min_bid_increment)

SpecBid == AuctionInit /\ [][BidNext]_vars

\* ===========================================================================
\* Properties
\* ===========================================================================

\* C1: a business created fresh (round 1, score 0) on which N scenario results
\* have since been recorded has current_round = 1 + N and total_score = the sum
\* of the N recorded scores, whatever other runs happened in between.
C1_RoundAndScoreFollowRecordedResults ==
    \A b \in DOMAIN businesses :
        /\ businesses[b].current_round = 1 + recorded[b].n
        /\ businesses[b].total_score = recorded[b].sum

\* two results with different scores (15 and 81) recorded on one business
C1_Witness ==
    \E b \in DOMAIN businesses :
        /\ recorded[b].n = 2
        /\ recorded[b].sum = 96
        /\ businesses[b].current_round = 3

C3_SelectionRecordedExactlyOnce ==
    \A s \in Sessions :
        /\ decisions[s].saved <= 1
        /\ (Idle(s) /\ decisions[s].selected) => decisions[s].saved = 1

\* ---- leaderboard --------------------------------------------------------
IsSortedDesc(lb) == \A i, j \in 1..Len(lb) : i < j => lb[i].score >= lb[j].score

\* C4: after any sequence of update_leaderboard insertions the leaderboard has
\* at most 100 entries, in descending order of score.
C4_LeaderboardCappedAndSorted ==
    /\ Len(leaderboard) <= LeaderboardCap
    /\ IsSortedDesc(leaderboard)

\* 101 insertions happened, the list is full and holds both scores
C4_Witness ==
    /\ BagSize(inserted) = LeaderboardCap + 1
    /\ Len(leaderboard) = LeaderboardCap
    /\ leaderboard[1].score > leaderboard[LeaderboardCap].score

ScoreBag(lb) ==
    [v \in {lb[i].score : i \in 1..Len(lb)} |->
        Cardinality({i \in 1..Len(lb) : lb[i].score = v})]

\* the k largest elements of a bag, as a bag
RECURSIVE TopOver(_, _, _)
TopOver(bag, keys, k) ==
    IF keys = {} \/ k = 0 THEN <<>>
    ELSE LET m    == SetMax(keys)
             take == Min(bag[m], k)
         IN  DictSet(TopOver(bag, keys \ {m}, k - take), m, take)

\* C5: the scores stored are the min(100, n) largest of the n scores ever
\* inserted, and get_leaderboard(limit) returns the first min(limit, length)
\* entries, which are the highest-scoring ones.
C5_LeaderboardKeepsTopScores ==
    /\ ScoreBag(leaderboard) =
          TopOver(inserted, DOMAIN inserted, Min(LeaderboardCap, BagSize(inserted)))
    /\ last.op = "get_leaderboard" =>
          /\ last.result = SubSeq(leaderboard, 1, Min(last.limit, Len(leaderboard)))
          /\ \A i \in 1..Len(last.result), j \in (Len(last.result) + 1)..Len(leaderboard) :
                 leaderboard[j].score <= last.result[i].score

\* 102 insertions, at least two of the low score and one of the high one, and
\* the top ten just read
C5_Witness ==
    /\ BagSize(inserted) = LeaderboardCap + 2
    /\ 15 \in DOMAIN inserted /\ inserted[15] >= 2
    /\ 81 \in DOMAIN inserted
    /\ last.op = "get_leaderboard" /\ last.limit = 10 /\ Len(last.result) = 10

\* ---- auctions -----------------------------------------------------------
\* C6: after an accepted bid the auction's current_bid is the bid's amount, its
\* highest_bidder is the bidder, and its bid history is the history the bid
\* found with the bid (bidder, amount, timestamp) appended.
C6_AcceptedBidIsCurrent ==
    (last.op = "bid" /\ last.result = "accepted") =>
        /\ auctions[last.auction_id].current_bid = last.amount
        /\ auctions[last.auction_id].highest_bidder = last.user_id
        /\ auctions[last.auction_id].bids =
               Append(last.pre_auctions[last.auction_id].bids,
                      [user_id |-> last.user_id, amount |-> last.amount,
                       timestamp |-> last.timestamp])

\* a bid accepted on an auction on which another user had bid before
C6_Witness ==
    /\ last.op = "bid" /\ last.result = "accepted"
    /\ Len(auctions[last.auction_id].bids) = 2
    /\ auctions[last.auction_id].bids[1].user_id # last.user_id
    /\ auctions[last.auction_id].bids[1] = last.pre_auctions[last.auction_id].bids[1]

\* C7: a submitted bid below the stored current_bid + min_bid_increment of the
\* moment it is handled is not accepted and leaves every auction as stored,
\* also when the session's last rendering showed a lower current bid.
C7_LowBidRejected ==
    (/\ last.op = "bid"
     /\ last.amount < last.pre_auctions[last.auction_id].current_bid + min_bid_increment) =>
        /\ last.result # "accepted"
        /\ auctions = last.pre_auctions

\* the session enters the minimum it was shown, another user has bid on the
\* auction meanwhile, and the bid is turned down
C7_Witness ==
    /\ last.op = "bid" /\ last.result = "below_min"
    /\ last.amount = last.seen + min_bid_increment
    /\ last.auction_id \notin last.created
    /\ last.pre_auctions[last.auction_id].current_bid > last.seen
    /\ last.pre_auctions[last.auction_id].highest_bidder # last.user_id
    /\ last.pre_auctions[last.auction_id].highest_bidder # NoUser

\* the latest of the highest bids of a non-empty bid history
MaxBidIndex(bids) ==
    CHOOSE i \in 1..Len(bids) :
        \A j \in 1..Len(bids) :
            \/ bids[j].amount < bids[i].amount
            \/ (bids[j].amount = bids[i].amount /\ j <= i)

CurrentBidIsMaximum ==
    \A a \in DOMAIN auctions :
        IF auctions[a].bids = <<>>
        THEN /\ auctions[a].current_bid = auctions[a].starting_price
             /\ auctions[a].highest_bidder = NoUser
        ELSE /\ auctions[a].current_bid =
                    auctions[a].bids[MaxBidIndex(auctions[a].bids)].amount
             /\ auctions[a].highest_bidder =
                    auctions[a].bids[MaxBidIndex(auctions[a].bids)].user_id

CurrentBidNeverDecreases ==
    \A a \in DOMAIN auctions :
        /\ a \in DOMAIN auctions'
        /\ auctions'[a].current_bid >= auctions[a].current_bid

\* C8 as claimed: in every state every auction's current_bid is the maximum
\* amount of its bid history (starting_price when the history is empty) and
\* highest_bidder is the bidder of that bid (none when empty), and no step
\* lowers the current_bid stored for an auction.
C8_CurrentBidIsMaximumAndNeverDecreases ==
    []CurrentBidIsMaximum /\ [][CurrentBidNeverDecreases]_vars

\* C9: a submitted bid above the capital the bidding business has in the store
\* when the bid is handled is not accepted, and leaves every auction and every
\* business as stored.
C9_UnaffordableBidRejected ==
    (/\ last.op = "bid"
     /\ last.amount > last.pre_businesses[last.business_id].capital) =>
        /\ last.result = "insufficient"
        /\ auctions = last.pre_auctions
        /\ businesses = last.pre_businesses

\* a bid of at least the minimum, by a business that has paid for a bid before
\* and cannot afford this one
C9_Witness ==
    /\ last.op = "bid" /\ last.result = "insufficient"
    /\ last.amount >= last.pre_auctions[last.auction_id].current_bid + min_bid_increment
    /\ last.amount > businesses[last.business_id].capital
    /\ paid[last.business_id].n >= 1

\* C10: an accepted bid of amount a lowers the bidding business's stored
\* capital by exactly a and changes nothing else in any business record; every
\* business's capital is its creation capital minus its accepted bid amounts.
C10_CapitalDeductedExactly ==
    /\ (last.op = "bid" /\ last.result = "accepted") =>
           businesses = [last.pre_businesses EXCEPT
                            ![last.business_id].capital = @ - last.amount]
    /\ \A b \in DOMAIN businesses :
           businesses[b].capital = paid[b].capital - paid[b].spent

\* the second accepted bid of a business, while another business exists
C10_Witness ==
    /\ last.op = "bid" /\ last.result = "accepted"
    /\ paid[last.business_id].n = 2
    /\ paid[last.business_id].spent > last.amount
    /\ \E o \in DOMAIN businesses : o # last.business_id


\* ---------------------------------------------------------------------------
\* C11  There is no refund path: a step that is not the creation of a business
\*      record (create_business writing that ID) never increases the record's
\*      stored capital and never removes the record; a later higher bid by
\*      another user, close_auction and a recorded scenario result all leave
\*      the capital of every business at or below what it was.
\* ---------------------------------------------------------------------------
CreatedNow(b) ==
    /\ b = now
    /\ \E s \in Sessions, ty \in TypeChoices, add \in AdditionalCapital :
          SetupSubmit(s, ty, add)

CapitalNotIncreased ==
    \A b \in DOMAIN businesses :
        /\ b \in DOMAIN businesses'
        /\ businesses'[b].capital > businesses[b].capital => CreatedNow(b)

C11_CapitalNeverIncreasesAfterCreation == [][CapitalNotIncreased]_vars

\* the first bidder of a closed auction was outbid by another user, has a
\* recorded scenario result, and still holds less than its creation capital
C11_Witness ==
    \E a \in DOMAIN auctions, b \in DOMAIN businesses :
        /\ auctions[a].status = "closed"
        /\ Len(auctions[a].bids) >= 2
        /\ auctions[a].bids[1].user_id = businesses[b].user_id
        /\ auctions[a].bids[2].user_id # businesses[b].user_id
        /\ b \in DOMAIN recorded /\ recorded[b].n >= 1
        /\ b \in DOMAIN paid /\ paid[b].n = 1
        /\ businesses[b].capital = paid[b].capital - auctions[a].bids[1].amount


\* ---------------------------------------------------------------------------
\* C12  Scenario results form an append-only log: every save_scenario call (a
\*      step that records a result) increases the number of stored scenario
\*      records by exactly one, and no step modifies, replaces or removes a
\*      stored record.
\* ---------------------------------------------------------------------------
ScenarioRecordsKept ==
    \A id \in DOMAIN scenarios :
        id \in DOMAIN scenarios' /\ scenarios'[id] = scenarios[id]

ScenarioSaved == inserted' # inserted

C12_ScenarioLogAppendOnly ==
    [][/\ ScenarioRecordsKept
       /\ ScenarioSaved =>
            Cardinality(DOMAIN scenarios') = Cardinality(DOMAIN scenarios) + 1]_vars


\* ---------------------------------------------------------------------------
\* C13  Every business record is created with status 'active', current_round 1
\*      and total_score 0, and once a record's status is 'completed' no later
\*      step that is not a creation of that record (recording a result, a bid,
\*      continuing the business from the setup page, Start New Game) changes
\*      the status or removes the record.
\* ---------------------------------------------------------------------------
BusinessStatusKept ==
    /\ \A b \in DOMAIN businesses : b \in DOMAIN businesses'
    /\ \A b \in DOMAIN businesses' :
          IF CreatedNow(b)
          THEN /\ businesses'[b].status = "active"
               /\ businesses'[b].current_round = 1
               /\ businesses'[b].total_score = 0
          ELSE /\ b \in DOMAIN businesses
               /\ businesses[b].status = "completed" => businesses'[b].status = "completed"

C13_CreatedActiveAndCompletedStays == [][BusinessStatusKept]_vars

\* the session completed business b, bid with it, set up business c, continued
\* b from the setup page and recorded one more result for it: b is still
\* 'completed'
C13_Witness ==
    \E s \in Sessions, b \in DOMAIN businesses, c \in DOMAIN businesses :
        /\ b # c
        /\ businesses[b].status = "completed"
        /\ businesses[c].status = "active" /\ recorded[c].n = 0
        /\ session_state[s].business_id = b
        /\ session_state[s].scenario_completed /\ decisions[s].saved >= 1
        /\ paid[b].n >= 1


\* ---------------------------------------------------------------------------
\* C14  For all integers risk, reward, realism in 0..10 calculate_score returns
\*      an integer in 0..100, and raising one argument by one with the other
\*      two held fixed never lowers the result (so the function is monotonically
\*      non-decreasing in each argument).
\* ---------------------------------------------------------------------------
C14_ScoreInRangeAndMonotone ==
    last.op = "calculate_score" =>
        /\ last.score \in 0..100
        /\ last.before <= last.score

\* the score of (10, 10, 10), reached by raising one argument of a triple that
\* scored less
C14_Witness ==
    /\ last.op = "calculate_score"
    /\ last.risk = MaxMetric /\ last.reward = MaxMetric /\ last.realism = MaxMetric
    /\ last.before >= 0 /\ last.before < last.score


\* ---------------------------------------------------------------------------
\* C15  calculate_score(risk, reward, realism) equals 3*risk + 4*reward +
\*      3*realism for integer inputs in 0..10 (the weighted sum times 10,
\*      truncated toward zero); in particular (10,10,10) scores 100, (0,0,0)
\*      scores 0, (5,5,5) scores 50, and no triple scores above 100.
\* ---------------------------------------------------------------------------
C15_ScoreIsWeightedSum ==
    last.op = "calculate_score" =>
        /\ last.score = 3 * last.risk + 4 * last.reward + 3 * last.realism
        /\ last.score <= 100


\* ---------------------------------------------------------------------------
\* C16  get_feedback returns one of four tiers for every integer score, with
\*      inclusive lower bounds: score >= 80 excellent, 60 <= score < 80 good,
\*      40 <= score < 60 average, score < 40 poor; scores below 20 are poor as
\*      well (the 'poor' threshold 20 makes no fifth tier).
\* ---------------------------------------------------------------------------
C16_FeedbackTiers ==
    last.op = "get_feedback" =>
        /\ last.tier \in {"excellent", "good", "average", "poor"}
        /\ last.tier = "excellent" <=> last.score >= 80
        /\ last.tier = "good" <=> (60 <= last.score /\ last.score < 80)
        /\ last.tier = "average" <=> (40 <= last.score /\ last.score < 60)
        /\ last.tier = "poor" <=> last.score < 40

\* the lowest score of the top tier has been classified
C16_Witness ==
    /\ last.op = "get_feedback"
    /\ last.score = 80
    /\ last.tier = "excellent"


\* ---------------------------------------------------------------------------
\* C17  With no credential configured generate_scenario never fails and is
\*      deterministic: the call returns the Solar Leasing record of the
\*      fallback table for business type 'Solar Leasing' and the Dairy Farming
\*      record for every other type (missing or unknown too), whatever the
\*      location and round, and the same record as the call before it for the
\*      same business type.
\* ---------------------------------------------------------------------------
ClaimedFallback(business_type) ==
    IF business_type = "Solar Leasing" THEN FallbackTable["Solar Leasing"]
    ELSE FallbackTable["Dairy Farming"]

C17_NoCredentialFallback ==
    (last.op = "generate_scenario" /\ ~last.key) =>
        /\ last.outcome # Raised
        /\ last.outcome = ClaimedFallback(last.business_data.business_type)
        /\ \A i \in DOMAIN last.before :
              last.before[i].business_type = last.business_data.business_type
                  => last.before[i].outcome = last.outcome


\* ---------------------------------------------------------------------------
\* C18  With a credential configured, whenever the provider call fails (network
\*      error, error status, timeout, unexpected envelope) or the response text
\*      holds no JSON, generate_scenario returns the fallback record of the
\*      business type and raises nothing; every call returns a record.
\* ---------------------------------------------------------------------------
C18_ProviderFailureFallsBack ==
    (last.op = "generate_scenario" /\ last.key) =>
        /\ last.outcome # Raised
        /\ last.response.kind # "json" =>
              last.outcome = ClaimedFallback(last.business_data.business_type)

\* ---------------------------------------------------------------------------
\* C19  On every path (no credential, provider success, provider failure) the
\*      value generate_scenario returns is a scenario record: a scenario text,
\*      exactly three options and three consequences, a score_logic with the
\*      keys option_1, option_2, option_3 each holding integer risk, reward
\*      and realism in 0..10, and an event whose description and impact are
\*      both null or both present.
\* ---------------------------------------------------------------------------
IsScenarioRecord(v) ==
    /\ v # Raised
    /\ v.scenario # null
    /\ v.options = 3
    /\ v.consequences = 3
    /\ DOMAIN v.score_logic = OptionKeys
    /\ \A k \in OptionKeys :
          /\ v.score_logic[k].risk \in Metrics
          /\ v.score_logic[k].reward \in Metrics
          /\ v.score_logic[k].realism \in Metrics
    /\ (v.event.description = null) <=> (v.event.impact = null)

C19_ReturnsScenarioRecord ==
    last.op = "generate_scenario" => IsScenarioRecord(last.outcome)


\* ---------------------------------------------------------------------------
\* C20  _extract_json applies three tiers in order - parse the whole text,
\*      parse the contents of a fenced json block, parse the first
\*      brace-delimited substring - and returns the result of the first tier
\*      that parses, each later tier being attempted whenever the earlier ones
\*      fail; when no tier yields JSON it raises an error and returns nothing.
\* ---------------------------------------------------------------------------
TierParses(match) == match # NoMatch /\ ~json_loads(match).raised

FirstTierThatParses(text) ==
    IF TierParses(text) THEN text
    ELSE IF TierParses(FencedMatch(text)) THEN FencedMatch(text)
    ELSE IF TierParses(BraceMatch(text)) THEN BraceMatch(text)
    ELSE NoMatch

C20_FirstParsingTierWins ==
    last.op = "_extract_json" =>
        IF FirstTierThatParses(last.text) = NoMatch
        THEN last.result.raised
        ELSE /\ ~last.result.raised
             /\ last.result.value = FirstTierThatParses(last.text)


\* ---------------------------------------------------------------------------
\* C21  When reading the store fails, _read_data returns an empty document and
\*      every public store operation built on it (create_user, get_user,
\*      update_user_score, create_business, get_business, save_scenario,
\*      update_leaderboard, create_auction, place_bid, get_active_auctions,
\*      get_statistics) completes without raising to its caller.
\* ---------------------------------------------------------------------------
C21_ReadFailureIsNotFatal ==
    last.op = "read_failure" =>
        /\ last.data = EmptyDocument
        /\ last.outcome = "returned"


\* ---------------------------------------------------------------------------
\* C22  The store gives no isolation and the last write wins: when two
\*      read-modify-write operations of different sessions both read the
\*      document before either writes, the document left by the second write is
\*      exactly the second writer's copy (the commonly read document with its
\*      own change only), and the first writer's change is absent from it: the
\*      result differs from running the two operations one after the other.
\* ---------------------------------------------------------------------------
C22_LastWriteWins ==
    (last.op = "race" /\ last.done # <<>>) =>
        LET second == last.done[1]
            alone  == Changed(second.data, second.o, now)
            first  == Changed(second.data, second.first[1], now)
            serial == Changed(first, second.o, now)
        IN  /\ read_data = alone
            /\ read_data # serial
            /\ first # second.data

\* two sessions read the same document, both wrote a score increment, and the
\* user's total holds only one of them
C22_Witness ==
    /\ last.op = "race" /\ last.done # <<>>
    /\ last.done[1].o.name = "update_user_score"
    /\ last.done[1].first[1].name = "update_user_score"
    /\ users[RaceUser].total_score = 15
    /\ last.writes = 2


\* ---------------------------------------------------------------------------
\* C23: an auction's status changes only through close_auction, which sets
\*      status "closed" and records closed_at; the passing of ends_at changes
\*      nothing, so an auction is returned by get_active_auctions exactly
\*      while its status is "active", whatever its ends_at; and a closed
\*      auction stays closed and is never returned. (A create_auction call
\*      that stores a new auction under the ID of an existing one replaces the
\*      record; such a step starts another auction and is not counted as a
\*      status change of the replaced one.)
\* ---------------------------------------------------------------------------
AuctionCreatedNow(a) == last'.op \in {"visit", "bid", "sell"} /\ a \in last'.created

AuctionStatusKept ==
    /\ \A a \in DOMAIN auctions :
          /\ a \in DOMAIN auctions'
          /\ (~AuctionCreatedNow(a) /\ auctions'[a].status # auctions[a].status)
                => /\ auctions[a].status = "active"
                   /\ auctions' = close_auction(auctions, now, a)
                   /\ auctions'[a].status = "closed"
                   /\ auctions'[a].closed_at = now
          /\ (~AuctionCreatedNow(a) /\ auctions[a].status = "closed")
                => /\ auctions'[a].status = "closed"
                   /\ a \notin get_active_auctions(auctions')
    /\ \A a \in DOMAIN auctions' :
          auctions'[a].status = "active" <=> a \in get_active_auctions(auctions')

RoundedStart(market_value) == (7 * market_value + 5) \div 10

UserListed(auction) == "seller_id" \in DOMAIN auction

CreatedAsClaimed(auction) ==
    /\ auction.status = "active"
    /\ auction.bids = <<>>
    /\ auction.highest_bidder = NoUser
    /\ auction.current_bid = auction.starting_price
    /\ auction.starting_price <= auction.market_value
    /\ ~UserListed(auction) => auction.starting_price = RoundedStart(auction.market_value)

AuctionsCreatedAsClaimed ==
    \A a \in DOMAIN auctions' : AuctionCreatedNow(a) => CreatedAsClaimed(auctions'[a])

C24_CreatedActiveAtStartingPrice == [][AuctionsCreatedAsClaimed]_vars


\* ---------------------------------------------------------------------------
\* C25: a business plays a fixed round budget: no scenario result is recorded
\*      for a business whose status is "completed" or whose current_round
\*      exceeds max_rounds, so that no business ever has more than max_rounds
\*      results recorded or a current_round above max_rounds + 1.
\* ---------------------------------------------------------------------------
ResultRecordedFor(b) ==
    /\ b \in DOMAIN businesses'
    /\ recorded'[b].n = recorded[b].n + 1
    /\ businesses'[b].current_round = businesses[b].current_round + 1

RoundBudgetKept ==
    \A b \in DOMAIN businesses :
        /\ ResultRecordedFor(b) => /\ businesses[b].status # "completed"
                                   /\ businesses[b].current_round <= max_rounds
        /\ b \in DOMAIN businesses' => /\ recorded'[b].n <= max_rounds
                                       /\ businesses'[b].current_round <= max_rounds + 1

C25_FixedRoundBudget == [][RoundBudgetKept]_vars


\* ---------------------------------------------------------------------------
\* C26: every create_auction call adds one new record under an ID that no
\*      stored auction has, so that no stored auction is overwritten; a run of
\*      create_sample_auctions that finds fewer than 3 active auctions
\*      therefore adds three records and leaves at least 3 active auctions.
\* ---------------------------------------------------------------------------
SamplesCreated == last'.op = "visit" /\ last' # last /\ last'.created # {}

CreateAddsNewRecords ==
    /\ (auctions' # auctions /\ last'.op \in {"visit", "bid", "sell"})
          => /\ last'.created \cap DOMAIN auctions = {}
             /\ \A a \in DOMAIN auctions : a \in DOMAIN auctions'
    /\ SamplesCreated
          => /\ Cardinality(DOMAIN auctions') = Cardinality(DOMAIN auctions) + 3
             /\ Cardinality(get_active_auctions(auctions')) >= 3

C26_CreateAddsOneNewAuction == [][CreateAddsNewRecords]_vars


\* ---------------------------------------------------------------------------
\* C27: in every reachable state the stored capital of every business is >= 0,
\*      whatever businesses are created and whatever bids are accepted, also
\*      when several sessions bid with one business and the capital a session
\*      last saw on its page is no longer the stored one.
\* ---------------------------------------------------------------------------
C27_CapitalNeverNegative ==
    \A b \in DOMAIN businesses : businesses[b].capital >= 0

\* two sessions hold the same business and both have paid for a bid with it
C27_Witness ==
    \E s, t \in Sessions, b \in DOMAIN businesses :
        /\ s # t
        /\ session_state[s].business_id = b
        /\ session_state[t].business_id = b
        /\ paid[b].n >= 2
        /\ last.op = "bid" /\ last.result = "accepted" /\ last.session = t
        /\ \E a \in DOMAIN auctions :
              /\ Len(auctions[a].bids) >= 1
              /\ a \in DOMAIN session_state[s].rendered
              /\ session_state[s].rendered[a] < auctions[a].current_bid
        /\ businesses[b].capital = paid[b].capital - paid[b].spent


\* ---------------------------------------------------------------------------
\* C28: within one session a scenario is generated only when the session
\*      holds no scenario or an answered one, and generation leaves an
\*      unanswered scenario with no selection; an option is selected only for
\*      a scenario the session holds unanswered, and selection marks that
\*      scenario answered. So no scenario is re-rolled unanswered or answered
\*      twice.
\* ---------------------------------------------------------------------------
\* the st.rerun() of line 131 and the one of line 169
Generated(s) ==
    /\ session_state[s].rerun = "" /\ session_state'[s].rerun = "scenarios"
    /\ ~session_state'[s].scenario_completed

Answered(s) ==
    /\ session_state[s].rerun = "" /\ session_state'[s].rerun = "scenarios"
    /\ session_state'[s].scenario_completed

GenerateAnswerAlternate ==
    \A s \in Sessions :
        /\ Generated(s)
             => /\ \/ session_state[s].current_scenario = NoScenario
                   \/ session_state[s].scenario_completed
                /\ session_state'[s].current_scenario # NoScenario
                /\ session_state'[s].selected_option = NoOption
        /\ Answered(s)
             => /\ session_state[s].current_scenario # NoScenario
                /\ ~session_state[s].scenario_completed
                /\ session_state'[s].current_scenario = session_state[s].current_scenario
                /\ session_state'[s].selected_option # NoOption

C28_GenerateAnswerAlternate == [][GenerateAnswerAlternate]_vars

\* a second scenario has been generated after the first was answered and
\* recorded: the session holds it unanswered and with no selection
C28_Witness ==
    \E s \in Sessions :
        /\ HasBusiness(s)
        /\ recorded[session_state[s].business_id].n >= 1
        /\ session_state[s].current_scenario # NoScenario
        /\ ~session_state[s].scenario_completed
        /\ session_state[s].selected_option = NoOption


\* ---------------------------------------------------------------------------
\* C29: each user's total_score is the sum of total_score over the user's
\*      businesses, the user's games_played is the sum of current_round - 1
\*      over them and also the number of scenario results stored for them,
\*      and get_business_analytics agrees with each business record.
\* ---------------------------------------------------------------------------
C29_UserTotalsMatchBusinesses ==
    \A u \in DOMAIN users :
        LET bs == get_user_businesses(businesses, u)
        IN  /\ users[u].total_score =
                  BagSizeOver([b \in bs |-> businesses[b].total_score], bs)
            /\ users[u].games_played =
                  BagSizeOver([b \in bs |-> businesses[b].current_round - 1], bs)
            /\ users[u].games_played =
                  Cardinality({id \in DOMAIN scenarios : scenarios[id].business_id \in bs})
            /\ \A b \in bs :
                  LET analytics == get_business_analytics(scenarios, b)
                  IN  /\ analytics.total_rounds = businesses[b].current_round - 1
                      /\ analytics.total_rounds > 0
                            => analytics.total_score = businesses[b].total_score


\* ---------------------------------------------------------------------------
\* C30: a bid is recorded and paid for together or not at all: a submitted bid
\*      reduces the bidder's capital by its amount exactly when it is appended
\*      to the auction's bid history, a bid is appended only to an auction
\*      that is stored with status "active" when the bid is applied, and
\*      place_bid on a missing or closed auction changes neither the auction
\*      nor any capital.
\* ---------------------------------------------------------------------------
BidAppended ==
    /\ auctions # last.pre_auctions
    /\ auctions = place_bid(last.pre_auctions, last.timestamp, last.auction_id,
                            last.user_id, last.amount)

BidPaidFor ==
    businesses[last.business_id].capital =
        last.pre_businesses[last.business_id].capital - last.amount

OpenWhenApplied ==
    /\ last.auction_id \in DOMAIN last.pre_auctions
    /\ last.pre_auctions[last.auction_id].status = "active"

C30_BidRecordedAndPaidTogether ==
    /\ last.op = "bid" => /\ BidAppended <=> BidPaidFor
                          /\ BidAppended <=> last.result = "accepted"
                          /\ BidAppended => OpenWhenApplied
    /\ (last.op = "place_bid" /\ ~OpenWhenApplied)
          => /\ auctions = last.pre_auctions
             /\ businesses = last.pre_businesses

====
